---- MODULE Spec2Model ----
(***************************************************************************)
(* live-reload: a development file server.                                 *)
(*                                                                         *)
(* Part 1 models the reload channel of src/main.rs: the async_channel      *)
(* created in main, the SIGHUP listener handle_signal that sends on it,    *)
(* and the websocket sessions handle_socket that receive from clones of    *)
(* its single Receiver.  An async_channel is a multi-producer              *)
(* multi-consumer queue: all clones of the Receiver take from the same     *)
(* queue and every message is handed to exactly one of them.               *)
(*                                                                         *)
(* Part 2 models the content handler serve_file with validate_path.        *)
(***************************************************************************)
EXTENDS Integers, Sequences, FiniteSets, TLC

\* ------------------------------------------------------------------ bounds
MaxSessions == 2
MaxPublish == 2

Sessions == 1..MaxSessions

VARIABLES
    queue,      \* the channel's queue: notifications sent and not yet received
    published,  \* number of tx.send calls made by handle_signal so far
    pc,         \* each session's position in handle_socket
    wsIn,       \* each session's websocket: what the peer has sent, unread
    cur,        \* the notification a session received and is pushing
    pushed,     \* per session, the notifications whose reload message was sent
    drained,    \* per session, the notifications discarded by the drain loop
    activeAt,   \* per session, `published` when its drain loop exited (-1: not yet)
    failed,     \* per session, the number of pushes whose ws.send returned Err
    listener,   \* the spawned handle_signal task: "starting", "running", "failed", "done"
    server,     \* main: "starting", then "serving", or "exited" (non-zero) on an error
    triggers    \* number of SIGHUP events sig.recv() has handed to handle_signal

busVars == <<queue, published, pc, wsIn, cur, pushed, drained, activeAt,
            failed, listener, server, triggers>>

\* A session is ACTIVE once the drain loop has exited and until it returns.
Active(s) == pc[s] \in {"select", "send"}

\* The connection of session s is open: the peer has neither closed it nor
\* has it ended.
ConnOpen(s) == wsIn[s] # "close"

BusInit ==
    /\ queue = <<>>
    /\ published = 0
    /\ pc = [s \in Sessions |-> "idle"]
    /\ wsIn = [s \in Sessions |-> "none"]
    /\ cur = [s \in Sessions |-> 0]
    /\ pushed = [s \in Sessions |-> <<>>]
    /\ drained = [s \in Sessions |-> <<>>]
    /\ activeAt = [s \in Sessions |-> -1]
    /\ failed = [s \in Sessions |-> 0]
    /\ listener = "starting"
    /\ server = "starting"
    /\ triggers = 0

\* A variant of Publish on a channel of capacity 1: the send of a trigger that
\* finds the queue full does not add to it.
PublishBounded ==
    /\ listener = "running"
    /\ server # "exited"
    /\ triggers < MaxPublish
    /\ triggers' = triggers + 1
    /\ IF queue = <<>>
       THEN published' = published + 1 /\ queue' = Append(queue, published + 1)
       ELSE UNCHANGED <<published, queue>>
    /\ UNCHANGED <<pc, wsIn, cur, pushed, drained, activeAt, failed, listener, server>>

\* handle_signal: one SIGHUP received, one tx.send(()) on the unbounded channel.
Publish ==
    /\ listener = "running"
    /\ server # "exited"
    /\ triggers < MaxPublish
    /\ triggers' = triggers + 1
    /\ published' = published + 1
    /\ queue' = Append(queue, published + 1)
    /\ UNCHANGED <<pc, wsIn, cur, pushed, drained, activeAt, failed, listener, server>>

\* ws_handler / handle_socket entry: the upgrade completed, rx = state.rx.clone().
Attach(s) ==
    /\ server = "serving"
    /\ pc[s] = "idle"
    /\ pc' = [pc EXCEPT ![s] = "drain_check"]
    /\ UNCHANGED <<queue, published, wsIn, cur, pushed, drained, activeAt, failed, listener, server, triggers>>

\* A variant of DrainCheck that enters the select loop without emptying the queue.
DrainCheckSkip(s) ==
    /\ pc[s] = "drain_check"
    /\ pc' = [pc EXCEPT ![s] = "select"]
    /\ activeAt' = [activeAt EXCEPT ![s] = published]
    /\ UNCHANGED <<queue, published, wsIn, cur, pushed, drained, failed, listener, server, triggers>>

\* `while !rx.is_empty()`: the test of the drain loop.
DrainCheck(s) ==
    /\ pc[s] = "drain_check"
    /\ IF queue = <<>>
       THEN /\ pc' = [pc EXCEPT ![s] = "select"]
            /\ activeAt' = [activeAt EXCEPT ![s] = published]
       ELSE /\ pc' = [pc EXCEPT ![s] = "drain_recv"]
            /\ UNCHANGED activeAt
    /\ UNCHANGED <<queue, published, wsIn, cur, pushed, drained, failed, listener, server, triggers>>

\* `rx.recv().await` in the drain loop: suspends until the queue has a message.
DrainRecv(s) ==
    /\ pc[s] = "drain_recv"
    /\ queue # <<>>
    /\ drained' = [drained EXCEPT ![s] = Append(@, Head(queue))]
    /\ queue' = Tail(queue)
    /\ pc' = [pc EXCEPT ![s] = "drain_check"]
    /\ UNCHANGED <<published, wsIn, cur, pushed, activeAt, failed, listener, server, triggers>>

\* A variant of SelectRecv that reads the head of the queue and leaves it there.
SelectRecvPeek(s) ==
    /\ pc[s] = "select"
    /\ queue # <<>>
    /\ cur' = [cur EXCEPT ![s] = Head(queue)]
    /\ pc' = [pc EXCEPT ![s] = "send"]
    /\ UNCHANGED <<queue, published, wsIn, pushed, drained, activeAt, failed, listener, server, triggers>>

\* select!: the `v = rx.recv()` branch wins; on_recv starts ws.send.
SelectRecv(s) ==
    /\ pc[s] = "select"
    /\ queue # <<>>
    /\ cur' = [cur EXCEPT ![s] = Head(queue)]
    /\ queue' = Tail(queue)
    /\ pc' = [pc EXCEPT ![s] = "send"]
    /\ UNCHANGED <<published, wsIn, pushed, drained, activeAt, failed, listener, server, triggers>>

\* A variant of SelectWs that pushes a pending notification before returning.
SelectWsFlush(s) ==
    /\ pc[s] = "select"
    /\ wsIn[s] # "none"
    /\ pc' = [pc EXCEPT ![s] = "closed"]
    /\ IF queue # <<>>
       THEN /\ pushed' = [pushed EXCEPT ![s] = Append(@, Head(queue))]
            /\ queue' = Tail(queue)
       ELSE UNCHANGED <<pushed, queue>>
    /\ UNCHANGED <<published, wsIn, cur, drained, activeAt, failed, listener, server, triggers>>

\* select!: the `_ = ws.recv()` branch wins; handle_socket returns.
SelectWs(s) ==
    /\ pc[s] = "select"
    /\ wsIn[s] # "none"
    /\ pc' = [pc EXCEPT ![s] = "closed"]
    /\ UNCHANGED <<queue, published, wsIn, cur, pushed, drained, activeAt, failed, listener, server, triggers>>

\* on_recv: ws.send returned Ok; on_recv returns and the loop goes round.
SendOk(s) ==
    /\ pc[s] = "send"
    /\ pushed' = [pushed EXCEPT ![s] = Append(@, cur[s])]
    /\ cur' = [cur EXCEPT ![s] = 0]
    /\ pc' = [pc EXCEPT ![s] = "select"]
    /\ UNCHANGED <<queue, published, wsIn, drained, activeAt, failed, listener, server, triggers>>

\* on_recv: ws.send returned Err (the connection is gone); the `return` leaves
\* on_recv only, so the loop of handle_socket goes round.
SendFail(s) ==
    /\ pc[s] = "send"
    /\ ~ConnOpen(s)
    /\ cur' = [cur EXCEPT ![s] = 0]
    /\ failed' = [failed EXCEPT ![s] = @ + 1]
    /\ pc' = [pc EXCEPT ![s] = "select"]
    /\ UNCHANGED <<queue, published, wsIn, pushed, drained, activeAt, listener, server, triggers>>

\* The peer sends a message on the websocket.
PeerMessage(s) ==
    /\ pc[s] \notin {"idle", "closed"}
    /\ wsIn[s] = "none"
    /\ wsIn' = [wsIn EXCEPT ![s] = "msg"]
    /\ UNCHANGED <<queue, published, pc, cur, pushed, drained, activeAt, failed, listener, server, triggers>>

\* The peer closes the websocket (a close frame, or the connection ends).
PeerClose(s) ==
    /\ pc[s] \notin {"idle", "closed"}
    /\ wsIn[s] # "close"
    /\ wsIn' = [wsIn EXCEPT ![s] = "close"]
    /\ UNCHANGED <<queue, published, pc, cur, pushed, drained, activeAt, failed, listener, server, triggers>>

sessionVars == <<pc, wsIn, cur, pushed, drained, activeAt, failed>>

\* handle_signal's first statement in the task main spawned: signal(hangup())
\* returns the listener, or its error leaves handle_signal through `?`.  The
\* JoinHandle of tokio::spawn is dropped, so main never sees that result.
SignalSetup(ok) ==
    /\ listener = "starting"
    /\ server # "exited"
    /\ listener' = IF ok THEN "running" ELSE "failed"
    /\ UNCHANGED <<queue, published, triggers, server, sessionVars>>

\* handle_signal: sig.recv() returned None; the loop ends and the task returns Ok.
ListenerDone ==
    /\ listener = "running"
    /\ server # "exited"
    /\ listener' = "done"
    /\ UNCHANGED <<queue, published, triggers, server, sessionVars>>

\* main: TcpListener::bind returns the socket and axum::serve runs, or its
\* error leaves main through `?` and the process exits non-zero.
Bind(ok) ==
    /\ server = "starting"
    /\ server' = IF ok THEN "serving" ELSE "exited"
    /\ UNCHANGED <<queue, published, triggers, listener, sessionVars>>

\* A variant of SenderCount in which AppState keeps no Sender of its own.
SenderCountListenerOnly == IF listener \in {"starting", "running"} THEN 1 ELSE 0

\* The live Senders of the channel: AppState.tx for as long as the process
\* runs, and the tx.clone() moved into handle_signal until that task returns.
SenderCount ==
    (IF server # "exited" THEN 1 ELSE 0)
        + (IF listener \in {"starting", "running"} THEN 1 ELSE 0)

\* The live Receivers: AppState.rx, and the clone each running session holds.
ReceiverCount ==
    (IF server # "exited" THEN 1 ELSE 0)
        + Cardinality({s \in Sessions : pc[s] \notin {"idle", "closed"}})

\* An async_channel is closed once it has no Sender or no Receiver left; only
\* then does recv on an empty queue return Err instead of suspending.
ChannelOpen == SenderCount >= 1 /\ ReceiverCount >= 1

\* The steps handle_socket itself takes for session s.
SessionStep(s) ==
    \/ DrainCheck(s)
    \/ DrainRecv(s)
    \/ SelectRecv(s)
    \/ SelectWs(s)
    \/ SendOk(s)
    \/ SendFail(s)

\* ---------------------------------------------------------------- serve_file
\* bounds of the content handler's inputs
MaxSegs == 3
MaxDocLen == 2

\* A request path is the text after the route's leading "/", written as the
\* sequence of its pieces between "/" characters: "" is <<"">>, "/a" is
\* <<"", "a">>, "a/../b" is <<"a", "..", "b">>.  The route "/" carries no path
\* and serve_file takes PathBuf::new(), the empty text <<"">>.
Segs == {"", ".", "..", "docs", "index.html", "style.css"}
RequestPaths == UNION {[1..n -> Segs] : n \in 1..MaxSegs}

\* An HTML document is a sequence of pieces of text.
BodyClose == "</body>"
Script == "<script>js.js</script>"
Tokens == {BodyClose, "</BODY>", "<p>"}
Docs == UNION {[1..n -> Tokens] : n \in 0..MaxDocLen}

\* The length in bytes of extra/js.js, which include_str! inserts.
JsLen == 1

VARIABLES
    req,        \* the request path handed to serve_file
    doc,        \* the text of the HTML files on disk
    spc,        \* "request", then "responded" once serve_file has returned
    resp,       \* the Response serve_file returned
    stream,     \* the streamed body: "none", "pending", "done" or "failed"
    fsTouched,  \* serve_file made a filesystem call (is_dir, exists, read, open)
    failure,    \* the failure met on the content path, "none" if none
    opened      \* the full_path handed to read_to_string or File::open, <<>> if none

serveVars == <<req, doc, spc, resp, stream, fsTouched, failure, opened>>

Comp(k, n) == [kind |-> k, name |-> n]

\* std::path::Path::components on Unix: a leading "/" is RootDir, a leading "."
\* is CurDir, ".." is ParentDir, empty pieces and later "." pieces are skipped,
\* anything else is Normal.  No Prefix component exists on Unix.
RECURSIVE BodyComponents(_)
BodyComponents(segs) ==
    IF segs = <<>> THEN <<>>
    ELSE LET h == Head(segs)
             r == BodyComponents(Tail(segs))
         IN  IF h = "" \/ h = "." THEN r
             ELSE IF h = ".." THEN <<Comp("ParentDir", "..")>> \o r
             ELSE <<Comp("Normal", h)>> \o r

Components(raw) ==
    IF Len(raw) >= 2 /\ raw[1] = ""
    THEN <<Comp("RootDir", "/")>> \o BodyComponents(Tail(raw))
    ELSE IF raw[1] = "."
    THEN <<Comp("CurDir", ".")>> \o BodyComponents(Tail(raw))
    ELSE BodyComponents(raw)

\* A variant of ValidatePath that looks at the first component only.
ValidatePathFirstOnly(comps) ==
    comps = <<>> \/ comps[1].kind \in {"CurDir", "Normal"}

\* validate_path: false at the first Prefix, RootDir or ParentDir component.
ValidatePath(comps) ==
    \A i \in 1..Len(comps) : comps[i].kind \notin {"Prefix", "RootDir", "ParentDir"}

\* state.path, the served directory: /site.
ServerRoot == <<Comp("RootDir", "/"), Comp("Normal", "site")>>

\* The filesystem resolves a path to the names from "/" down to the entry.
RECURSIVE Resolve(_, _)
Resolve(comps, at) ==
    IF comps = <<>> THEN at
    ELSE LET c == Head(comps)
             to == CASE c.kind = "RootDir" -> <<>>
                     [] c.kind = "CurDir" -> at
                     [] c.kind = "ParentDir" ->
                            IF at = <<>> THEN at ELSE SubSeq(at, 1, Len(at) - 1)
                     [] OTHER -> Append(at, c.name)
         IN  Resolve(Tail(comps), to)

\* The disk: /site holds index.html, style.css and the directory docs, which
\* holds style.css only; /index.html lies outside the served directory.
Dirs == {<<>>, <<"site">>, <<"site", "docs">>}
Files == {<<"index.html">>, <<"site", "index.html">>, <<"site", "style.css">>,
          <<"site", "docs", "style.css">>}

IsDir(path) == Resolve(path, <<>>) \in Dirs
Exists(path) == Resolve(path, <<>>) \in Dirs \cup Files

\* mime_guess::from_path(..).first(): by the extension of the file name.
MimeOf(path) ==
    LET at == Resolve(path, <<>>)
        name == IF at = <<>> THEN "" ELSE at[Len(at)]
    IN  CASE name = "index.html" -> "text/html"
          [] name = "style.css" -> "text/css"
          [] OTHER -> "none"

\* str::len of a text, in bytes.
TokLen(t) ==
    CASE t = BodyClose -> 7
      [] t = "</BODY>" -> 7
      [] t = "<p>" -> 3
      [] t = Script -> 17 + JsLen

RECURSIVE ByteLen(_)
ByteLen(s) == IF s = <<>> THEN 0 ELSE TokLen(Head(s)) + ByteLen(Tail(s))

\* s.replace("</body>", "<script>..</script></body>"): every occurrence.
RECURSIVE ReplaceBodyClose(_)
ReplaceBodyClose(s) ==
    IF s = <<>> THEN <<>>
    ELSE IF Head(s) = BodyClose
         THEN <<Script, BodyClose>> \o ReplaceBodyClose(Tail(s))
         ELSE <<Head(s)>> \o ReplaceBodyClose(Tail(s))

\* A variant of InjectScript without the append when nothing was replaced.
InjectScriptNoAppend(s) == ReplaceBodyClose(s)

\* The script injection of serve_file: replace, and push_str the script when
\* the length did not change.
InjectScript(s) ==
    LET prev_len == ByteLen(s)
        r == ReplaceBodyClose(s)
    IN  IF prev_len = ByteLen(r) THEN Append(r, Script) ELSE r

NoCache == "no-cache, no-store, must-revalidate"

\* not_found(): (StatusCode::NOT_FOUND, "404: Page not found.").
NotFound ==
    [status |-> 404, body |-> <<"404: Page not found.">>,
     contentType |-> "text/plain; charset=utf-8", cacheControl |-> "absent"]

\* No Response has been returned yet.
NoResponse ==
    [status |-> 0, body |-> <<>>, contentType |-> "absent", cacheControl |-> "absent"]

\* A variant of WithCacheControl that sets the header on HTML responses only.
WithCacheControlHtmlOnly(res) ==
    IF res.contentType = "text/html" THEN [res EXCEPT !.cacheControl = NoCache] ELSE res

\* res.headers_mut().insert(header::CACHE_CONTROL, ..).
WithCacheControl(res) == [res EXCEPT !.cacheControl = NoCache]

\* A variant of ReadFailed that answers a read error with status 500.
ReadFailed500 == [NotFound EXCEPT !.status = 500]

\* The Err arms of fs::read_to_string and fs::File::open: log, then not_found().
ReadFailed == NotFound

\* The HTML arm: Response::new(Body::from(s)) with the Content-Type header.
HtmlResponse(text, m) ==
    [status |-> 200, body |-> InjectScript(text), contentType |-> m,
     cacheControl |-> "absent"]

\* The other arm: Response::new(Body::from_stream(ReaderStream::new(file))).
StreamResponse ==
    [status |-> 200, body |-> "stream", contentType |-> "absent",
     cacheControl |-> "absent"]

\* A variant of FullPath that never pushes index.html.
FullPathNoIndex(raw) == ServerRoot \o Components(raw)

\* full_path: the root's components chained with the request's, then
\* index.html pushed when that is a directory.
FullPath(raw) ==
    LET joined == ServerRoot \o Components(raw)
    IN  IF IsDir(joined) THEN Append(joined, Comp("Normal", "index.html")) ELSE joined

\* serve_file, from the request to the returned Response; ioOk is whether
\* reading (HTML) or opening (other files) the existing file succeeded.
ServeFile(ioOk) ==
    /\ spc = "request"
    /\ spc' = "responded"
    /\ IF ~ValidatePath(Components(req))
       THEN /\ resp' = NotFound
            /\ fsTouched' = FALSE
            /\ failure' = "rejected"
            /\ stream' = "none"
            /\ opened' = <<>>
       ELSE /\ fsTouched' = TRUE
            /\ IF ~Exists(FullPath(req))
               THEN /\ resp' = NotFound
                    /\ failure' = "missing"
                    /\ stream' = "none"
                    /\ opened' = <<>>
               ELSE IF MimeOf(FullPath(req)) = "text/html"
               THEN /\ resp' = IF ioOk
                               THEN WithCacheControl(HtmlResponse(doc, MimeOf(FullPath(req))))
                               ELSE ReadFailed
                    /\ failure' = IF ioOk THEN "none" ELSE "read"
                    /\ stream' = "none"
                    /\ opened' = FullPath(req)
               ELSE /\ resp' = IF ioOk THEN WithCacheControl(StreamResponse) ELSE ReadFailed
                    /\ failure' = IF ioOk THEN "none" ELSE "open"
                    /\ stream' = IF ioOk THEN "pending" ELSE "none"
                    /\ opened' = FullPath(req)
    /\ UNCHANGED <<req, doc>>

\* The server polls the ReaderStream of a returned response to send the body:
\* the file is read to its end, or a read fails and the body is cut short.
\* The status line and headers were fixed when serve_file returned.
StreamBody(ok) ==
    /\ spc = "responded"
    /\ stream = "pending"
    /\ stream' = IF ok THEN "done" ELSE "failed"
    /\ failure' = IF ok THEN failure ELSE "stream_read"
    /\ UNCHANGED <<req, doc, spc, resp, fsTouched, opened>>

ServeInit ==
    /\ req \in RequestPaths
    /\ doc \in Docs
    /\ spc = "request"
    /\ resp = NoResponse
    /\ stream = "none"
    /\ fsTouched = FALSE
    /\ failure = "none"
    /\ opened = <<>>

\* No request is being served.
ServeIdle ==
    /\ req = <<"">>
    /\ doc = <<>>
    /\ spc = "request"
    /\ resp = NoResponse
    /\ stream = "none"
    /\ fsTouched = FALSE
    /\ failure = "none"
    /\ opened = <<>>

\* ------------------------------------------------------------ specifications
vars == <<busVars, serveVars>>

\* The reload channel: the signal listener, the sessions and their peers.
Init == BusInit /\ ServeIdle

Next ==
    \/ \E ok \in BOOLEAN : SignalSetup(ok) /\ UNCHANGED serveVars
    \/ \E ok \in BOOLEAN : Bind(ok) /\ UNCHANGED serveVars
    \/ ListenerDone /\ UNCHANGED serveVars
    \/ Publish /\ UNCHANGED serveVars
    \/ \E s \in Sessions : Attach(s) /\ UNCHANGED serveVars
    \/ \E s \in Sessions : DrainCheck(s) /\ UNCHANGED serveVars
    \/ \E s \in Sessions : DrainRecv(s) /\ UNCHANGED serveVars
    \/ \E s \in Sessions : SelectRecv(s) /\ UNCHANGED serveVars
    \/ \E s \in Sessions : SelectWs(s) /\ UNCHANGED serveVars
    \/ \E s \in Sessions : SendOk(s) /\ UNCHANGED serveVars
    \/ \E s \in Sessions : SendFail(s) /\ UNCHANGED serveVars
    \/ \E s \in Sessions : PeerMessage(s) /\ UNCHANGED serveVars
    \/ \E s \in Sessions : PeerClose(s) /\ UNCHANGED serveVars

Spec == Init /\ [][Next]_vars

\* The content handler serving one request.
ServeSpecInit == BusInit /\ ServeInit

ServeSpecNext ==
    \/ \E ioOk \in BOOLEAN : ServeFile(ioOk) /\ UNCHANGED busVars
    \/ \E ok \in BOOLEAN : StreamBody(ok) /\ UNCHANGED busVars

ServeSpec == ServeSpecInit /\ [][ServeSpecNext]_vars

\* ------------------------------------------------------- reload channel claims

\* No notification is in flight: the queue is empty and no push is under way.
Quiescent == queue = <<>> /\ \A s \in Sessions : pc[s] # "send"

\* Session s is ACTIVE with its peer silent and connected.
Listening(s) == Active(s) /\ wsIn[s] = "none"

\* The number of reload messages session s has pushed for notification n.
PushCount(s, n) == Cardinality({i \in 1..Len(pushed[s]) : pushed[s][i] = n})

\* The sessions that were ACTIVE when n was sent and have been listening since.
Audience(n) == {s \in Sessions : Listening(s) /\ activeAt[s] < n}

\* C1 (fan-out): once nothing is in flight any more, every notification that
\* was published while two or more sessions were ACTIVE has been pushed exactly
\* once by each of those sessions.
C1_FanOut ==
    Quiescent =>
        \A n \in 1..published :
            Cardinality(Audience(n)) >= 2 =>
                \A s \in Audience(n) : PushCount(s, n) = 1

\* C2 (no missed notification): once nothing is in flight any more, a session
\* that is still listening has pushed one reload message for every notification
\* published after its drain loop exited, in publish order.
C2_NoMissedNotification ==
    Quiescent =>
        \A s \in Sessions :
            Listening(s) =>
                pushed[s] = [i \in 1..(published - activeAt[s]) |-> activeAt[s] + i]

\* C3 (coalesce-on-connect): a session never pushes, nor starts to push, a
\* reload message for a notification published before its drain loop exited.
C3_CoalesceOnConnect ==
    \A s \in Sessions :
        /\ \A i \in 1..Len(pushed[s]) : pushed[s][i] > activeAt[s]
        /\ pc[s] = "send" => cur[s] > activeAt[s]

\* A session discarded a notification in its drain loop and later pushed one.
C3_Witness ==
    \E s \in Sessions : Len(drained[s]) >= 1 /\ Len(pushed[s]) >= 1

\* C4 (disconnect cleanup): a session whose peer has closed the connection and
\* that has not yet returned can always take a step of its own, so that it
\* terminates without any further publish.
C4_DisconnectCleanup ==
    \A s \in Sessions :
        (wsIn[s] = "close" /\ pc[s] \notin {"idle", "closed"}) =>
            ENABLED SessionStep(s)

\* C11 (listener failure is startup-fatal): when the SIGHUP listener could not
\* be established, the server is not serving requests.
C11_ListenerFailureFatal ==
    listener = "failed" => server # "serving"

\* C12 (one publish per trigger, never blocked): every trigger handle_signal
\* received has been published, and a running listener can always publish,
\* however many notifications are undelivered and whatever the sessions do.
C12_PublishPerTrigger ==
    /\ triggers = published
    /\ (listener = "running" /\ server # "exited" /\ triggers < MaxPublish) =>
           ENABLED Publish

\* All triggers were published with no session attached; none was delivered.
C12_Witness ==
    /\ published = MaxPublish
    /\ Len(queue) = MaxPublish
    /\ \A s \in Sessions : pc[s] = "idle"

\* C13 (the bus lives as long as the process): while the process runs the
\* channel is open, so no receive returns a closed-channel error.
C13_BusLives ==
    server # "exited" => ChannelOpen

\* The listener has returned and a session has closed while another session
\* waits in a receive.
C13_Witness ==
    /\ server = "serving"
    /\ listener = "done"
    /\ \E s \in Sessions : pc[s] = "closed"
    /\ \E s \in Sessions : pc[s] \in {"drain_recv", "select"}
    /\ ChannelOpen

\* C14 (push failure closes the session): a session one of whose pushes has
\* failed attempts no further push.
C14_PushFailureCloses ==
    \A s \in Sessions : failed[s] >= 1 => pc[s] # "send"

\* C15 (the drain phase does not block): a session in its drain loop can
\* always take its next drain step, without any publish.
C15_DrainNonBlocking ==
    \A s \in Sessions :
        pc[s] \in {"drain_check", "drain_recv"} =>
            ENABLED (DrainCheck(s) \/ DrainRecv(s))

\* The notifications on the queue.
Pending == {queue[i] : i \in 1..Len(queue)}

\* The notifications session s has received: discarded, pushed or being pushed.
Received(s) ==
    {drained[s][i] : i \in 1..Len(drained[s])}
        \cup {pushed[s][i] : i \in 1..Len(pushed[s])}
        \cup (IF cur[s] # 0 THEN {cur[s]} ELSE {})

\* C16 (independent cursors): a notification one session has received, and
\* that was published while another session was listening, is one that other
\* session has received as well or can still receive.
C16_IndependentCursors ==
    \A s, t \in Sessions :
        s # t =>
            \A n \in Received(s) :
                (Listening(t) /\ activeAt[t] < n) => n \in Received(t) \cup Pending

\* C17 (the peer branch closes the session): a session leaves the select loop
\* only when its peer has sent something, and then for CLOSED, pushing nothing
\* and taking nothing from the queue; a CLOSED session stays CLOSED and pushes
\* nothing.
C17_PeerBranchCloses ==
    [][\A s \in Sessions :
          /\ (pc[s] = "select" /\ pc'[s] \notin {"select", "send"}) =>
                /\ wsIn[s] # "none"
                /\ pc'[s] = "closed"
                /\ pushed'[s] = pushed[s]
                /\ queue' = queue
          /\ pc[s] = "closed" =>
                /\ pc'[s] = "closed"
                /\ pushed'[s] = pushed[s]
                /\ cur'[s] = cur[s]]_vars

\* A session closed on a plain message of its peer and a notification is on
\* the queue that it has not taken.
C17_Witness ==
    \E s \in Sessions : pc[s] = "closed" /\ wsIn[s] = "msg" /\ queue # <<>>

RECURSIVE SumOver(_, _)
SumOver(f, S) ==
    IF S = {} THEN 0
    ELSE LET x == CHOOSE y \in S : TRUE IN f[x] + SumOver(f, S \ {x})

\* The number of notifications session s has taken from the queue.
ReceivedCount(s) ==
    Len(drained[s]) + Len(pushed[s]) + failed[s] + (IF cur[s] # 0 THEN 1 ELSE 0)

\* C19 (each notification is consumed at most once): the notifications taken
\* by all sessions plus those still on the queue are as many as were
\* published, and the reload messages pushed are no more than that.
C19_ConsumedOnce ==
    /\ SumOver([s \in Sessions |-> ReceivedCount(s)], Sessions) + Len(queue) = published
    /\ SumOver([s \in Sessions |-> Len(pushed[s])], Sessions) <= published

\* One session discarded a notification, another pushed one, none is left.
C19_Witness ==
    /\ queue = <<>>
    /\ \E s, t \in Sessions : s # t /\ Len(drained[s]) >= 1 /\ Len(pushed[t]) >= 1

\* ------------------------------------------------------- content handler claims

\* The request path has a ".." piece, at any position.
HasParentSeg(raw) == \E i \in 1..Len(raw) : raw[i] = ".."

\* The request path starts with "/", the root-directory anchor.
HasRootAnchor(raw) == Len(raw) >= 2 /\ raw[1] = ""

\* The request path has a drive or volume prefix component.
HasPrefix(raw) == \E i \in 1..Len(Components(raw)) : Components(raw)[i].kind = "Prefix"

\* The response is the fixed not-found response.
IsNotFound(r) == r.status = 404 /\ r.body = <<"404: Page not found.">>

\* C5 (path traversal rejection): a request path with a ".." piece, a root
\* anchor or a prefix is answered 404 with no filesystem call made.
C5_TraversalRejected ==
    (spc = "responded" /\ (HasParentSeg(req) \/ HasRootAnchor(req) \/ HasPrefix(req))) =>
        (IsNotFound(resp) /\ ~fsTouched)

\* A path with ".." after its first piece that resolves to an existing file
\* was answered 404.
C5_Witness ==
    /\ spc = "responded"
    /\ req[1] # ".."
    /\ HasParentSeg(req)
    /\ Resolve(ServerRoot \o Components(req), <<>>) \in Files
    /\ IsNotFound(resp)
    /\ ~fsTouched

\* serve_file returned an HTML document.
ServedHtml == spc = "responded" /\ resp.status = 200 /\ resp.body # "stream"

\* The positions of "</body>" in a document.
Positions(s) == {i \in 1..Len(s) : s[i] = BodyClose}

\* The number of script blocks in a body.
ScriptCount(s) == Cardinality({i \in 1..Len(s) : s[i] = Script})

\* C6 (HTML injection): with exactly one "</body>" the served body is the
\* document with one script block inserted right before it; with none it is
\* the document followed by one script block.
C6_HtmlInjection ==
    ServedHtml =>
        /\ Cardinality(Positions(doc)) = 1 =>
              LET i == CHOOSE j \in Positions(doc) : TRUE
              IN  resp.body = SubSeq(doc, 1, i - 1) \o <<Script>> \o SubSeq(doc, i, Len(doc))
        /\ Positions(doc) = {} => resp.body = doc \o <<Script>>

\* A document whose only "</body>" is followed by more text was served.
C6_Witness ==
    /\ ServedHtml
    /\ Positions(doc) = {1}
    /\ Len(doc) = 2
    /\ resp.body = <<Script, BodyClose, doc[2]>>

\* C7 (script exactly once): every served HTML body holds the script block
\* exactly once, right before the first "</body>" when there is one.
C7_ScriptExactlyOnce ==
    ServedHtml =>
        /\ ScriptCount(resp.body) = 1
        /\ Positions(doc) # {} =>
              LET i == CHOOSE j \in Positions(doc) : \A k \in Positions(doc) : j <= k
              IN  resp.body[i] = Script /\ resp.body[i + 1] = BodyClose

\* C8 (content type): every response with file content has its Content-Type
\* set to the media type inferred from the path.
C8_ContentTypeSet ==
    (spc = "responded" /\ resp.status = 200) =>
        resp.contentType = MimeOf(FullPath(req))

\* C9 (no caching): every response with file content carries
\* Cache-Control: no-cache, no-store, must-revalidate.
C9_CacheControl ==
    (spc = "responded" /\ resp.status = 200) =>
        resp.cacheControl = "no-cache, no-store, must-revalidate"

\* A streamed response carries the header.
C9_Witness ==
    /\ spc = "responded"
    /\ resp.status = 200
    /\ resp.body = "stream"
    /\ resp.cacheControl = "no-cache, no-store, must-revalidate"

\* C10 (uniform failure), as claimed: whatever failure the content path met,
\* the response is the fixed 404.
C10_UniformFailure ==
    failure # "none" => IsNotFound(resp)

\* C10, amended: a failure met before serve_file returns (rejected path,
\* missing file, read error of an HTML file, open error of a streamed file) is
\* answered with the fixed 404; a read error of the streamed body comes after
\* the status 200 response was returned and leaves it as it is.
C10_UniformFailureBeforeReturn ==
    failure # "none" =>
        IF failure = "stream_read"
        THEN resp.status = 200 /\ resp.body = "stream" /\ stream = "failed"
        ELSE IsNotFound(resp)

\* Opening an existing file failed and the fixed 404 was returned.
C10_Witness ==
    failure = "open" /\ IsNotFound(resp)

\* The place on the disk a validated request path stands for: ServerRoot
\* followed by the request's pieces, then index.html when that is a directory.
Target(raw) ==
    LET at == Resolve(ServerRoot \o Components(raw), <<>>)
    IN  IF at \in Dirs THEN Append(at, "index.html") ELSE at

\* C18 (resolution of a validated path): when nothing exists at the target
\* the response is not found and no file is opened; otherwise the file opened
\* is the one at exactly the target, and it is served with status 200 unless
\* reading or opening it failed; the path opened starts with ServerRoot.
C18_Resolution ==
    (spc = "responded" /\ ValidatePath(Components(req))) =>
        /\ Target(req) \notin Files =>
              (IsNotFound(resp) /\ opened = <<>> /\ failure = "missing")
        /\ Target(req) \in Files =>
              /\ opened # <<>>
              /\ Resolve(opened, <<>>) = Target(req)
              /\ SubSeq(opened, 1, Len(ServerRoot)) = ServerRoot
              /\ failure \in {"none", "stream_read"} => resp.status = 200
              /\ failure \in {"read", "open"} => IsNotFound(resp)

\* A request for a directory was answered with the directory's index.html.
C18_Witness ==
    /\ spc = "responded"
    /\ Resolve(ServerRoot \o Components(req), <<>>) \in Dirs
    /\ opened = Append(ServerRoot \o Components(req), Comp("Normal", "index.html"))
    /\ resp.status = 200

====
